---- MODULE Spec2Model ----
(***************************************************************************)
(* Model of routes/logistics_routes.py: the Flask blueprint that validates *)
(* request bodies, delegates to the planning agent, the delivery verifier, *)
(* the transport fallback agent and the weather service, and maps results  *)
(* and exceptions to HTTP status codes.                                    *)
(*                                                                         *)
(* Strings that the handlers transform (strip, upper, float) are sequences *)
(* of one-character strings; strings that are only passed through (error   *)
(* messages, order ids) are TLA+ strings.                                  *)
(***************************************************************************)
EXTENDS Integers, Sequences, FiniteSets, TLC

VARIABLES _agent, created, shipments, incidents, last, pc, route, obj, held

vars == <<_agent, created, shipments, incidents, last, pc, route, obj, held>>

(***************************************************************************)
(* Bounds                                                                  *)
(***************************************************************************)
MaxLen == 2

MaxOrders == 2

NThreads == 2

(***************************************************************************)
(* JSON values of a request body and Python's view of them                 *)
(***************************************************************************)
Absent == [kind |-> "absent", str |-> <<>>, num |-> 0]

Null == [kind |-> "null", str |-> <<>>, num |-> 0]

Num(n) == [kind |-> "num", str |-> <<>>, num |-> n]

Str(s) == [kind |-> "str", str |-> s, num |-> 0]

List(s) == [kind |-> "list", str |-> s, num |-> 0]

StringsOver(alphabet, n) == UNION {[1..k -> alphabet] : k \in 0..n}

\* dict.get(k) / dict.get(k, default): a missing key reads as the default,
\* a key holding JSON null reads as None.
Get(body, k, default) == IF body[k].kind = "absent" THEN default ELSE body[k]

\* Python truthiness of a value read from the body (None, 0, "" and [] are false).
Truthy(v) ==
  CASE v.kind = "absent" -> FALSE
    [] v.kind = "null" -> FALSE
    [] v.kind = "num" -> v.num # 0
    [] v.kind = "str" -> v.str # <<>>
    [] v.kind = "list" -> v.str # <<>>

IsSpace(c) == c = " "

RECURSIVE LStrip(_)
LStrip(s) == IF s # <<>> /\ IsSpace(Head(s)) THEN LStrip(Tail(s)) ELSE s

RECURSIVE RStrip(_)
RStrip(s) ==
  IF s # <<>> /\ IsSpace(s[Len(s)]) THEN RStrip(SubSeq(s, 1, Len(s) - 1)) ELSE s

\* str.strip()
Strip(s) == RStrip(LStrip(s))

UpperChar(c) == IF c = "a" THEN "A" ELSE c

\* variant: str.capitalize() in place of str.upper()
Upper_FirstOnly(s) == [i \in 1..Len(s) |-> IF i = 1 THEN UpperChar(s[i]) ELSE s[i]]

\* str.upper()
Upper(s) == [i \in 1..Len(s) |-> UpperChar(s[i])]

DigitChar(n) == <<"0", "1", "2", "3", "4", "5", "6", "7", "8", "9">>[n + 1]

\* str(v) for the values a body can hold (numbers here are single digits)
PyStr(v) ==
  CASE v.kind = "str" -> v.str
    [] v.kind = "num" -> <<DigitChar(v.num)>>
    [] v.kind = "null" -> <<"N", "o", "n", "e">>
    [] OTHER -> <<>>

(***************************************************************************)
(* float(): decimal literals, value kept exactly as mantissa / 10^scale    *)
(***************************************************************************)
Dec(m, s) == [mant |-> m, scale |-> s]

RECURSIVE Normal(_)
Normal(d) ==
  IF d.scale > 0 /\ d.mant % 10 = 0 THEN Normal(Dec(d.mant \div 10, d.scale - 1)) ELSE d

IsDigit(c) == c \in {"0", "1", "2", "3", "4", "5", "6", "7", "8", "9"}

DigitVal(c) == CHOOSE n \in 0..9 : DigitChar(n) = c

RECURSIVE DigitsVal(_)
DigitsVal(s) ==
  IF s = <<>> THEN 0 ELSE DigitsVal(SubSeq(s, 1, Len(s) - 1)) * 10 + DigitVal(s[Len(s)])

Dots(s) == {i \in 1..Len(s) : s[i] = "."}

NoDots(s) == SelectSeq(s, LAMBDA c : c # ".")

\* float(str) succeeds on optional surrounding whitespace around digits with
\* at most one decimal point and at least one digit.
FloatOk(s) ==
  LET t == Strip(s) IN
    /\ \A i \in 1..Len(t) : IsDigit(t[i]) \/ t[i] = "."
    /\ Cardinality(Dots(t)) <= 1
    /\ NoDots(t) # <<>>

FloatVal(s) ==
  LET t == Strip(s)
      frac == IF Dots(t) = {} THEN 0 ELSE Len(t) - (CHOOSE i \in Dots(t) : TRUE)
  IN Normal(Dec(DigitsVal(NoDots(t)), frac))

DefaultLat == Dec(129716, 4)

DefaultLng == Dec(775946, 4)

(***************************************************************************)
(* Exceptions, collaborator outcomes, handler outcomes                     *)
(***************************************************************************)
Exc(type, msg) == [type |-> type, msg |-> msg]

Msgs == {"no feasible route", "boom"}

\* what a collaborator (or the agent constructor) may raise
Exceptions == {Exc(t, m) : t \in {"RuntimeError", "ValueError"}, m \in Msgs}

\* isinstance(e, RuntimeError)
IsRuntimeError(e) == e.type = "RuntimeError"

Returns(v) == [kind |-> "return", val |-> v]

Raises(e) == [kind |-> "raise", exc |-> e]

\* the handler returned (body, status) / an exception left the handler
Response(status, body) == [kind |-> "response", status |-> status, body |-> body]

Escaped(e) == [kind |-> "raised", exc |-> e]

\* one collaborator call: what was called, with what, and what it did
Call(fn, args, out) == [fn |-> fn, args |-> args, out |-> out]

\* result of running one handler: the module global afterwards, the number of
\* agents ever constructed, the constructor calls (their outcomes) and the
\* collaborator calls made by this request, and what the handler gave back
Ran(agent, n, ctor, calls, out) ==
  [agent |-> agent, created |-> n, ctor |-> ctor, calls |-> calls, out |-> out]

\* variant: the flag counts as set whenever the key is present
Success_KeyPresent(r) == "success" \in DOMAIN r

\* dict.get("success") on a collaborator result; a missing key reads as None
Success(r) == IF "success" \in DOMAIN r THEN r.success ELSE FALSE

(***************************************************************************)
(* The lazily created planning agent                                       *)
(***************************************************************************)
None == 0

\* agent.model
ModelOf(agent) == <<"model", agent>>

\* variant: the "is None" test is missing, every call constructs a new agent
GetAgent_Always(agent, n, ctorOut) ==
  IF ctorOut.kind = "raise"
    THEN [global |-> agent, created |-> n, ctor |-> <<ctorOut>>, out |-> ctorOut]
    ELSE [global |-> n + 1, created |-> n + 1, ctor |-> <<Returns(n + 1)>>,
          out |-> Returns(n + 1)]

\* _get_agent() run without interruption: agent is the module global, n the
\* number of agents constructed so far, ctorOut what the constructor does.
GetAgent(agent, n, ctorOut) ==
  IF agent = None
    THEN IF ctorOut.kind = "raise"
           THEN [global |-> agent, created |-> n, ctor |-> <<ctorOut>>, out |-> ctorOut]
           ELSE [global |-> n + 1, created |-> n + 1, ctor |-> <<Returns(n + 1)>>,
                 out |-> Returns(n + 1)]
    ELSE [global |-> agent, created |-> n, ctor |-> <<>>, out |-> Returns(agent)]

(***************************************************************************)
(* POST /logistics/plan                                                    *)
(***************************************************************************)
PlanExcept(e) ==
  IF IsRuntimeError(e)
    THEN Response(422, [error |-> e.msg])
    ELSE Response(500, [error |-> "Internal server error.", detail |-> e.msg])

plan_logistics(body, agent, n, ctorOut, planOut) ==
  LET order_ids == Get(body, "orders", List(<<>>)) IN
    IF ~Truthy(order_ids)
      THEN Ran(agent, n, <<>>, <<>>,
               Response(400, [error |-> "Provide at least one order ID in 'orders' list."]))
      ELSE LET g == GetAgent(agent, n, ctorOut) IN
        IF g.out.kind = "raise"
          THEN Ran(g.global, g.created, g.ctor, <<>>, PlanExcept(g.out.exc))
          ELSE LET calls == <<Call("plan_logistics", <<g.out.val, order_ids>>, planOut)>> IN
            IF planOut.kind = "raise"
              THEN Ran(g.global, g.created, g.ctor, calls, PlanExcept(planOut.exc))
              ELSE Ran(g.global, g.created, g.ctor, calls, Response(200, planOut.val))

(***************************************************************************)
(* POST /logistics/delivery/verify                                         *)
(***************************************************************************)
Driver == <<"d", "r", "i", "v", "e", "r">>

verify_delivery(body, agent, n, verifyOut) ==
  LET sid == Get(body, "shipment_id", Str(<<>>))
      shipment_id == Strip(sid.str)
      entered_pin == Strip(PyStr(Get(body, "pin", Str(<<>>))))
      verified_by == Get(body, "verified_by", Str(Driver))
  IN
    IF sid.kind # "str"
      THEN Ran(agent, n, <<>>, <<>>, Escaped(Exc("AttributeError", "strip")))
    ELSE IF shipment_id = <<>> \/ entered_pin = <<>>
      THEN Ran(agent, n, <<>>, <<>>, Response(400, [error |-> "Provide 'shipment_id' and 'pin'."]))
    ELSE LET calls == <<Call("verify_pin", <<shipment_id, entered_pin, verified_by>>, verifyOut)>> IN
      IF verifyOut.kind = "raise"
        THEN Ran(agent, n, <<>>, calls, Escaped(verifyOut.exc))
        ELSE Ran(agent, n, <<>>, calls,
                 Response(IF Success(verifyOut.val) THEN 200 ELSE 422, verifyOut.val))

(***************************************************************************)
(* GET list routes: one collaborator call, its value returned with 200     *)
(***************************************************************************)
\* variant: the route drops the module's agent handle
ListRoute_DropsAgent(fn, agent, n, listOut) ==
  LET calls == <<Call(fn, <<>>, listOut)>> IN
    IF listOut.kind = "raise"
      THEN Ran(None, n, <<>>, calls, Escaped(listOut.exc))
      ELSE Ran(None, n, <<>>, calls, Response(200, listOut.val))

ListRoute(fn, agent, n, listOut) ==
  LET calls == <<Call(fn, <<>>, listOut)>> IN
    IF listOut.kind = "raise"
      THEN Ran(agent, n, <<>>, calls, Escaped(listOut.exc))
      ELSE Ran(agent, n, <<>>, calls, Response(200, listOut.val))

get_shipments(agent, n, listOut) == ListRoute("get_all_shipments", agent, n, listOut)

get_active_shipments(agent, n, listOut) == ListRoute("get_active_shipments", agent, n, listOut)

get_incidents(agent, n, listOut) == ListRoute("get_all_incidents", agent, n, listOut)

get_open_incidents(agent, n, listOut) == ListRoute("get_open_incidents", agent, n, listOut)

(***************************************************************************)
(* POST /logistics/incident/report                                         *)
(***************************************************************************)
required == <<"shipment_id", "vehicle_id", "incident_type", "description">>

\* index of the first required key whose value is falsy, 0 when there is none
FirstMissing(body) ==
  LET missing == {i \in 1..Len(required) : ~Truthy(Get(body, required[i], Null))} IN
    IF missing = {} THEN 0 ELSE CHOOSE i \in missing : \A j \in missing : i <= j

report_incident(body, agent, n, ctorOut, reportOut) ==
  LET k == FirstMissing(body) IN
    IF k # 0
      THEN Ran(agent, n, <<>>, <<>>,
               Response(400, [error |-> "Missing required field: '" \o required[k] \o "'."]))
      ELSE LET g == GetAgent(agent, n, ctorOut) IN
        IF g.out.kind = "raise"
          THEN Ran(g.global, g.created, g.ctor, <<>>, Response(500, [error |-> g.out.exc.msg]))
        ELSE IF body["incident_type"].kind # "str"
          THEN Ran(g.global, g.created, g.ctor, <<>>, Response(500, [error |-> "upper"]))
        ELSE LET calls == <<Call("report_incident",
                                 <<body["shipment_id"], body["vehicle_id"],
                                   Upper(body["incident_type"].str),
                                   body["description"], ModelOf(g.out.val)>>,
                                 reportOut)>> IN
          IF reportOut.kind = "raise"
            THEN Ran(g.global, g.created, g.ctor, calls, Response(500, [error |-> reportOut.exc.msg]))
            ELSE Ran(g.global, g.created, g.ctor, calls, Response(200, reportOut.val))

(***************************************************************************)
(* POST /logistics/incident/resolve                                        *)
(***************************************************************************)
\* variant: an unsuccessful result is answered 422, as verify_delivery does
resolve_incident_422(body, agent, n, resolveOut) ==
  LET iid == Get(body, "incident_id", Str(<<>>))
      incident_id == Strip(iid.str)
  IN
    IF iid.kind # "str"
      THEN Ran(agent, n, <<>>, <<>>, Escaped(Exc("AttributeError", "strip")))
    ELSE IF incident_id = <<>>
      THEN Ran(agent, n, <<>>, <<>>, Response(400, [error |-> "Provide 'incident_id'."]))
    ELSE LET calls == <<Call("resolve_incident", <<incident_id>>, resolveOut)>> IN
      IF resolveOut.kind = "raise"
        THEN Ran(agent, n, <<>>, calls, Escaped(resolveOut.exc))
        ELSE Ran(agent, n, <<>>, calls,
                 Response(IF Success(resolveOut.val) THEN 200 ELSE 422, resolveOut.val))

resolve_incident(body, agent, n, resolveOut) ==
  LET iid == Get(body, "incident_id", Str(<<>>))
      incident_id == Strip(iid.str)
  IN
    IF iid.kind # "str"
      THEN Ran(agent, n, <<>>, <<>>, Escaped(Exc("AttributeError", "strip")))
    ELSE IF incident_id = <<>>
      THEN Ran(agent, n, <<>>, <<>>, Response(400, [error |-> "Provide 'incident_id'."]))
    ELSE LET calls == <<Call("resolve_incident", <<incident_id>>, resolveOut)>> IN
      IF resolveOut.kind = "raise"
        THEN Ran(agent, n, <<>>, calls, Escaped(resolveOut.exc))
        ELSE Ran(agent, n, <<>>, calls,
                 Response(IF Success(resolveOut.val) THEN 200 ELSE 404, resolveOut.val))

(***************************************************************************)
(* GET /logistics/weather                                                  *)
(***************************************************************************)
\* float(request.args.get(name, default)): a query argument is a string
ArgOk(arg) == arg.kind = "absent" \/ FloatOk(arg.str)

\* variant: an absent argument reads as 0.0 instead of the default
ArgVal_Zero(arg, default) == IF arg.kind = "absent" THEN Dec(0, 0) ELSE FloatVal(arg.str)

ArgVal(arg, default) == IF arg.kind = "absent" THEN default ELSE FloatVal(arg.str)

get_weather(args, agent, n, weatherOut) ==
  IF ~ArgOk(args["lat"]) \/ ~ArgOk(args["lng"])
    THEN Ran(agent, n, <<>>, <<>>, Response(400, [error |-> "lat/lng must be numeric."]))
    ELSE LET lat == ArgVal(args["lat"], DefaultLat)
             lng == ArgVal(args["lng"], DefaultLng)
             calls == <<Call("get_weather", <<lat, lng>>, weatherOut)>>
         IN IF weatherOut.kind = "raise"
              THEN Ran(agent, n, <<>>, calls, Escaped(weatherOut.exc))
              ELSE Ran(agent, n, <<>>, calls, Response(200, weatherOut.val))

(***************************************************************************)
(* Collaborators: agents.logistics.delivery_verifier,                      *)
(* transport_fallback_agent, weather_service and the planning agent.  They *)
(* own the shipment and incident records; their results are what the       *)
(* facade sees.                                                            *)
(***************************************************************************)
ShipmentIds == {<<"a">>}

IncidentIds == {<<"a">>}

Failures == {Raises(e) : e \in Exceptions}

AllShipments(sh) == {[id |-> s, status |-> sh[s]] : s \in {x \in ShipmentIds : sh[x] # "NONE"}}

ActiveShipments(sh) == {r \in AllShipments(sh) : r.status \in {"IN_TRANSIT", "INCIDENT"}}

AllIncidents(inc) == {[id |-> i, status |-> inc[i]] : i \in {x \in IncidentIds : inc[x] # "NONE"}}

OpenIncidents(inc) == {r \in AllIncidents(inc) : r.status = "OPEN"}

KnownShipment(sh, s) == s \in ShipmentIds /\ sh[s] # "NONE"

KnownIncident(inc, i) == i \in IncidentIds /\ inc[i] # "NONE"

\* plan_logistics(order_ids): a plan carrying the new shipment, or a failure
PlanOuts ==
  {Returns([shipment_id |-> s, delivery_pin |-> <<"1">>, status |-> "IN_TRANSIT"]) :
     s \in ShipmentIds} \cup Failures

AfterPlan(sh, out) ==
  IF out.kind = "return" THEN [sh EXCEPT ![out.val.shipment_id] = "IN_TRANSIT"] ELSE sh

\* verify_pin(...): success only for a shipment the verifier knows
VerifyOuts(sh, s) ==
  {Returns([success |-> FALSE, message |-> "Invalid PIN or shipment.", status |-> "UNCHANGED"]),
   Returns([message |-> "no flag"])}
  \cup (IF KnownShipment(sh, s)
          THEN {Returns([success |-> TRUE, message |-> "Delivered.", status |-> "DELIVERED"])}
          ELSE {})
  \cup Failures

AfterVerify(sh, s, out) ==
  IF out.kind = "return" /\ Success(out.val) THEN [sh EXCEPT ![s] = "DELIVERED"] ELSE sh

\* report_incident(...): a recovery plan for a new OPEN incident, or a failure
ReportOuts ==
  {Returns([incident_id |-> i, action |-> "DISPATCH_BACKUP", status |-> "OPEN"]) :
     i \in IncidentIds} \cup Failures

AfterReportShipments(sh, sidv, out) ==
  IF out.kind = "return" /\ sidv.kind = "str" /\ KnownShipment(sh, sidv.str)
    THEN [sh EXCEPT ![sidv.str] = "INCIDENT"]
    ELSE sh

AfterReportIncidents(inc, out) ==
  IF out.kind = "return" THEN [inc EXCEPT ![out.val.incident_id] = "OPEN"] ELSE inc

\* resolve_incident(id): success only for an incident the agent knows
ResolveOuts(inc, i) ==
  {Returns([success |-> FALSE, message |-> "Incident not found."]),
   Returns([message |-> "no flag"])}
  \cup (IF KnownIncident(inc, i)
          THEN {Returns([success |-> TRUE, incident_id |-> i, status |-> "RESOLVED"])}
          ELSE {})
  \cup Failures

AfterResolve(inc, i, out) ==
  IF out.kind = "return" /\ Success(out.val) THEN [inc EXCEPT ![i] = "RESOLVED"] ELSE inc

ListOuts(val) == {Returns(val)} \cup Failures

WeatherOuts == {Returns([condition |-> c]) : c \in {"CLEAR", "RAIN"}} \cup Failures

\* AutonomousOrchestratorAgent(api_key=...): returns the new object or raises
CtorOuts == {Returns("agent")} \cup Failures

(***************************************************************************)
(* Requests                                                                *)
(***************************************************************************)
OrderIds == {"O001", "O002"}

PlanBodies ==
  [{"orders"} -> {Absent, Null} \cup {List(s) : s \in StringsOver(OrderIds, MaxOrders)}]

IdValues == {Absent, Null, Num(1)} \cup {Str(s) : s \in StringsOver({" ", "a"}, MaxLen)}

PinValues == {Absent, Null, Num(1), Str(<<>>), Str(<<" ">>), Str(<<"1", " ">>)}

VerifyBodies ==
  {[shipment_id |-> s, pin |-> p, verified_by |-> v] :
     s \in IdValues, p \in PinValues, v \in {Absent, Null, Str(<<"x">>)}}

TypeValues ==
  {Absent, Null, Num(0), Num(1)} \cup {Str(s) : s \in StringsOver({"a", "A", "-"}, MaxLen)}

TextValues == {Absent, Str(<<>>), Str(<<"a">>)}

ReportBodies ==
  {[shipment_id |-> s, vehicle_id |-> v, incident_type |-> t, description |-> d] :
     s \in TextValues, v \in {Absent, Str(<<"V">>)}, t \in TypeValues, d \in TextValues}

ResolveBodies == [{"incident_id"} -> IdValues]

ArgValues == {Absent} \cup {Str(s) : s \in StringsOver({"1", ".", " ", "a"}, MaxLen)}

WeatherArgs == [{"lat", "lng"} -> ArgValues]

(***************************************************************************)
(* State machine: requests served one at a time                            *)
(***************************************************************************)
Idle == [name |-> "idle"]

Threads == 1..NThreads

Init ==
  /\ _agent = None
  /\ created = 0
  /\ shipments = [s \in ShipmentIds |-> "NONE"]
  /\ incidents = [i \in IncidentIds |-> "NONE"]
  /\ last = Idle
  /\ pc = [t \in Threads |-> "idle"]
  /\ route = [t \in Threads |-> "none"]
  /\ obj = [t \in Threads |-> None]
  /\ held = [t \in Threads |-> None]

\* the handler's effect on the module and the record of what it did
Handled(name, req, r) ==
  /\ _agent' = r.agent
  /\ created' = r.created
  /\ last' = [name |-> name, req |-> req, ctor |-> r.ctor, calls |-> r.calls, out |-> r.out]
  /\ UNCHANGED <<pc, route, obj, held>>

PlanRequest ==
  /\ last = Idle
  /\ \E body \in PlanBodies, ctorOut \in CtorOuts, planOut \in PlanOuts :
       LET r == plan_logistics(body, _agent, created, ctorOut, planOut) IN
         /\ Handled("plan_logistics", body, r)
         /\ shipments' = IF r.calls # <<>> THEN AfterPlan(shipments, planOut) ELSE shipments
         /\ UNCHANGED incidents

VerifyRequest ==
  /\ last = Idle
  /\ \E body \in VerifyBodies :
       \E verifyOut \in VerifyOuts(shipments, Strip(body.shipment_id.str)) :
         LET r == verify_delivery(body, _agent, created, verifyOut) IN
           /\ Handled("verify_delivery", body, r)
           /\ shipments' = IF r.calls # <<>>
                             THEN AfterVerify(shipments, r.calls[1].args[1], verifyOut)
                             ELSE shipments
           /\ UNCHANGED incidents

ShipmentsRequest ==
  /\ last = Idle
  /\ \E listOut \in ListOuts(AllShipments(shipments)) :
       Handled("get_shipments", <<>>, get_shipments(_agent, created, listOut))
  /\ UNCHANGED <<shipments, incidents>>

ActiveShipmentsRequest ==
  /\ last = Idle
  /\ \E listOut \in ListOuts(ActiveShipments(shipments)) :
       Handled("get_active_shipments", <<>>, get_active_shipments(_agent, created, listOut))
  /\ UNCHANGED <<shipments, incidents>>

ReportRequest ==
  /\ last = Idle
  /\ \E body \in ReportBodies, ctorOut \in CtorOuts, reportOut \in ReportOuts :
       LET r == report_incident(body, _agent, created, ctorOut, reportOut) IN
         /\ Handled("report_incident", body, r)
         /\ shipments' = IF r.calls # <<>>
                           THEN AfterReportShipments(shipments, body.shipment_id, reportOut)
                           ELSE shipments
         /\ incidents' = IF r.calls # <<>> THEN AfterReportIncidents(incidents, reportOut)
                                           ELSE incidents

ResolveRequest ==
  /\ last = Idle
  /\ \E body \in ResolveBodies :
       \E resolveOut \in ResolveOuts(incidents, Strip(body.incident_id.str)) :
         LET r == resolve_incident(body, _agent, created, resolveOut) IN
           /\ Handled("resolve_incident", body, r)
           /\ incidents' = IF r.calls # <<>>
                             THEN AfterResolve(incidents, r.calls[1].args[1], resolveOut)
                             ELSE incidents
           /\ UNCHANGED shipments

IncidentsRequest ==
  /\ last = Idle
  /\ \E listOut \in ListOuts(AllIncidents(incidents)) :
       Handled("get_incidents", <<>>, get_incidents(_agent, created, listOut))
  /\ UNCHANGED <<shipments, incidents>>

OpenIncidentsRequest ==
  /\ last = Idle
  /\ \E listOut \in ListOuts(OpenIncidents(incidents)) :
       Handled("get_open_incidents", <<>>, get_open_incidents(_agent, created, listOut))
  /\ UNCHANGED <<shipments, incidents>>

WeatherRequest ==
  /\ last = Idle
  /\ \E args \in WeatherArgs, weatherOut \in WeatherOuts :
       Handled("get_weather", args, get_weather(args, _agent, created, weatherOut))
  /\ UNCHANGED <<shipments, incidents>>

\* the response (or the exception) has left the worker; the next request may start
Deliver ==
  /\ last # Idle
  /\ last' = Idle
  /\ UNCHANGED <<_agent, created, shipments, incidents, pc, route, obj, held>>

Next ==
  \/ PlanRequest
  \/ VerifyRequest
  \/ ShipmentsRequest
  \/ ActiveShipmentsRequest
  \/ ReportRequest
  \/ ResolveRequest
  \/ IncidentsRequest
  \/ OpenIncidentsRequest
  \/ WeatherRequest
  \/ Deliver

Spec == Init /\ [][Next]_vars

(***************************************************************************)
(* _get_agent() statement by statement, for worker threads that serve Plan *)
(* and ReportIncident requests at the same time.  Nothing in the module    *)
(* serialises the test of the global, the constructor call and the store.  *)
(***************************************************************************)
seq_frame == <<shipments, incidents, last>>

\* a Plan or ReportIncident request has passed validation and calls _get_agent()
Enter(t) ==
  /\ pc[t] = "idle"
  /\ \E name \in {"plan_logistics", "report_incident"} : route' = [route EXCEPT ![t] = name]
  /\ pc' = [pc EXCEPT ![t] = "test"]
  /\ obj' = [obj EXCEPT ![t] = None]
  /\ held' = [held EXCEPT ![t] = None]
  /\ UNCHANGED <<_agent, created, seq_frame>>

\* if _agent is None:
Test(t) ==
  /\ pc[t] = "test"
  /\ pc' = [pc EXCEPT ![t] = IF _agent = None THEN "construct" ELSE "return"]
  /\ UNCHANGED <<_agent, created, route, obj, held, seq_frame>>

\* AutonomousOrchestratorAgent(api_key=api_key): a new object, or an exception
\* that ends the request in the handler's except clause
Construct(t) ==
  /\ pc[t] = "construct"
  /\ \E ctorOut \in CtorOuts :
       IF ctorOut.kind = "raise"
         THEN /\ pc' = [pc EXCEPT ![t] = "idle"]
              /\ UNCHANGED <<created, obj>>
         ELSE /\ created' = created + 1
              /\ obj' = [obj EXCEPT ![t] = created + 1]
              /\ pc' = [pc EXCEPT ![t] = "store"]
  /\ UNCHANGED <<_agent, route, held, seq_frame>>

\* _agent = <the new object>
Store(t) ==
  /\ pc[t] = "store"
  /\ _agent' = obj[t]
  /\ pc' = [pc EXCEPT ![t] = "return"]
  /\ UNCHANGED <<created, route, obj, held, seq_frame>>

\* return _agent
Return(t) ==
  /\ pc[t] = "return"
  /\ held' = [held EXCEPT ![t] = _agent]
  /\ pc' = [pc EXCEPT ![t] = "use"]
  /\ UNCHANGED <<_agent, created, route, obj, seq_frame>>

\* the handler calls its collaborator with the handle and responds
Use(t) ==
  /\ pc[t] = "use"
  /\ pc' = [pc EXCEPT ![t] = "idle"]
  /\ UNCHANGED <<_agent, created, route, obj, held, seq_frame>>

ConcNext == \E t \in Threads : Enter(t) \/ Test(t) \/ Construct(t) \/ Store(t) \/ Return(t) \/ Use(t)

ConcSpec == Init /\ [][ConcNext]_vars

(***************************************************************************)
(* Properties                                                              *)
(***************************************************************************)
Validating == {"plan_logistics", "verify_delivery", "report_incident", "resolve_incident"}

Listing == {"get_shipments", "get_active_shipments", "get_incidents", "get_open_incidents"}

RequiredFields(name) ==
  CASE name = "plan_logistics" -> {"orders"}
    [] name = "verify_delivery" -> {"shipment_id", "pin"}
    [] name = "report_incident" -> {"shipment_id", "vehicle_id", "incident_type", "description"}
    [] name = "resolve_incident" -> {"incident_id"}

Status(s) == last.out.kind = "response" /\ last.out.status = s

CtorRaised(l) == l.ctor # <<>> /\ l.ctor[1].kind = "raise"

CallRaised(l) == l.calls # <<>> /\ l.calls[1].out.kind = "raise"

CallReturned(l) == l.calls # <<>> /\ l.calls[1].out.kind = "return"

FlagTrue(r) == "success" \in DOMAIN r /\ r.success = TRUE

\* C1: a request that omits any required field of Plan, VerifyDelivery,
\* ReportIncident or ResolveIncident is answered with HTTP 400, and neither a
\* collaborator nor the agent constructor is called while handling it.
C1_OmittedFieldIs400 ==
  (/\ last.name \in Validating
   /\ \E k \in RequiredFields(last.name) : last.req[k].kind = "absent")
  => /\ Status(400)
     /\ last.calls = <<>>
     /\ last.ctor = <<>>

\* C2: Plan with a non-empty orders list answers 200 with the plan unchanged
\* when the planning call returns, 422 with {"error": message} only when the
\* planning call itself raises a recoverable (RuntimeError) failure, and 500
\* for every other failure, a failure while obtaining the agent included.
C2_PlanOutcomes ==
  (/\ last.name = "plan_logistics"
   /\ last.req["orders"].kind = "list"
   /\ last.req["orders"].str # <<>>)
  => /\ last.out.kind = "response"
     /\ CallReturned(last) => last.out = Response(200, last.calls[1].out.val)
     /\ (CallRaised(last) /\ IsRuntimeError(last.calls[1].out.exc))
          => last.out = Response(422, [error |-> last.calls[1].out.exc.msg])
     /\ (CallRaised(last) /\ ~IsRuntimeError(last.calls[1].out.exc)) => Status(500)
     /\ CtorRaised(last) => Status(500)
     /\ Status(422) => CallRaised(last)

\* C3: however concurrent Plan and ReportIncident requests interleave in
\* _get_agent, the agent is constructed at most once and no two requests are
\* handed different agents.
C3_SingleConstruction ==
  /\ created <= 1
  /\ \A t, u \in Threads : (held[t] # None /\ held[u] # None) => held[t] = held[u]

\* C4: when the collaborator call of any handler raises, the handler still
\* returns a response with a status code (the exception does not leave the
\* handler), and the collaborator is not called again.
C4_FailureBecomesStatus ==
  (last.name # "idle" /\ CallRaised(last))
  => /\ last.out.kind = "response"
     /\ Len(last.calls) = 1

\* C5: VerifyDelivery with a shipment_id and a pin that are non-empty after
\* trimming calls verify_pin once with the trimmed shipment_id, the trimmed pin
\* as a string and verified_by (default "driver"); when verify_pin returns, the
\* body is its result and the status is 200 iff the success flag is true, 422
\* otherwise.
C5_VerifyDelivery ==
  (/\ last.name = "verify_delivery"
   /\ last.req.shipment_id.kind = "str"
   /\ Strip(last.req.shipment_id.str) # <<>>
   /\ last.req.pin.kind \in {"str", "num"}
   /\ Strip(PyStr(last.req.pin)) # <<>>)
  => /\ Len(last.calls) = 1
     /\ last.calls[1].fn = "verify_pin"
     /\ last.calls[1].args =
          <<Strip(last.req.shipment_id.str), Strip(PyStr(last.req.pin)),
            IF last.req.verified_by.kind = "absent" THEN Str(Driver) ELSE last.req.verified_by>>
     /\ \A i \in 1..2 : LET a == last.calls[1].args[i] IN a[1] # " " /\ a[Len(a)] # " "
     /\ CallReturned(last) =>
          /\ last.out.kind = "response"
          /\ last.out.body = last.calls[1].out.val
          /\ last.out.status = 200 <=> FlagTrue(last.calls[1].out.val)
          /\ last.out.status \in {200, 422}

C5_Witness ==
  /\ last.name = "verify_delivery"
  /\ last.req.shipment_id = Str(<<" ", "a">>)
  /\ last.req.pin = Str(<<"1", " ">>)
  /\ last.req.verified_by = Absent
  /\ Status(200)

\* C6: ReportIncident with all four required fields present delegates to
\* report_incident with incident_type in upper case, the other three fields
\* unchanged and the shared agent's model; a returned recovery plan is answered
\* with 200, and any exception after validation (from obtaining the agent, from
\* upper-casing incident_type, from the collaborator) with 500 and its detail.
C6_ReportIncident ==
  (/\ last.name = "report_incident"
   /\ \A k \in RequiredFields("report_incident") : Truthy(last.req[k]))
  => /\ last.out.kind = "response"
     /\ Len(last.calls) <= 1
     /\ (~CtorRaised(last) /\ last.req.incident_type.kind = "str") => Len(last.calls) = 1
     /\ last.calls # <<>> =>
          LET a == last.calls[1].args
              t == last.req.incident_type.str
          IN /\ last.calls[1].fn = "report_incident"
             /\ a[1] = last.req.shipment_id
             /\ a[2] = last.req.vehicle_id
             /\ a[4] = last.req.description
             /\ a[5] = ModelOf(_agent)
             /\ _agent # None
             /\ Len(a[3]) = Len(t)
             /\ \A i \in 1..Len(t) : a[3][i] = (IF t[i] \in {"a", "A"} THEN "A" ELSE t[i])
     /\ CallReturned(last) => last.out = Response(200, last.calls[1].out.val)
     /\ CtorRaised(last) => last.out = Response(500, [error |-> last.ctor[1].exc.msg])
     /\ CallRaised(last) => last.out = Response(500, [error |-> last.calls[1].out.exc.msg])
     /\ last.calls = <<>> => Status(500)

C6_Witness ==
  /\ last.name = "report_incident"
  /\ last.req.incident_type = Str(<<"a", "-">>)
  /\ last.calls # <<>>
  /\ last.calls[1].args[3] = <<"A", "-">>
  /\ Status(200)

\* C7 as stated: ResolveIncident with a non-empty incident_id calls
\* resolve_incident exactly once with the trimmed id.
C7_NonEmptyIdIsResolved ==
  (/\ last.name = "resolve_incident"
   /\ last.req["incident_id"].kind = "str"
   /\ last.req["incident_id"].str # <<>>)
  => /\ Len(last.calls) = 1
     /\ last.calls[1].args = <<Strip(last.req["incident_id"].str)>>

\* C7: ResolveIncident with an incident_id that is non-empty after trimming
\* calls resolve_incident exactly once with the trimmed id; when it returns,
\* the body is its result and the status is 200 iff the success flag is true,
\* and 404 (never 422) when the flag is false or absent.
C7_ResolveIncident ==
  (/\ last.name = "resolve_incident"
   /\ last.req["incident_id"].kind = "str"
   /\ Strip(last.req["incident_id"].str) # <<>>)
  => /\ Len(last.calls) = 1
     /\ last.calls[1].fn = "resolve_incident"
     /\ last.calls[1].args = <<Strip(last.req["incident_id"].str)>>
     /\ CallReturned(last) =>
          /\ last.out.kind = "response"
          /\ last.out.body = last.calls[1].out.val
          /\ last.out.status = 200 <=> FlagTrue(last.calls[1].out.val)
          /\ last.out.status \in {200, 404}

C7_Witness ==
  /\ last.name = "resolve_incident"
  /\ last.req["incident_id"] = Str(<<"a", " ">>)
  /\ CallReturned(last)
  /\ "success" \notin DOMAIN last.calls[1].out.val
  /\ Status(404)

\* C8: GetWeather answers 400 without calling get_weather when a supplied lat
\* or lng does not parse as a number; otherwise it calls get_weather once with
\* each coordinate parsed, or defaulted on its own to 12.9716 / 77.5946 when
\* absent, and answers 200 with the reading.
C8_GetWeather ==
  last.name = "get_weather" =>
    LET lat == last.req["lat"]
        lng == last.req["lng"]
        bad(arg) == arg.kind = "str" /\ ~FloatOk(arg.str)
        letter(arg) == arg.kind = "str" /\ \E i \in 1..Len(arg.str) : arg.str[i] = "a"
    IN /\ (letter(lat) \/ letter(lng)) => Status(400)
       /\ (bad(lat) \/ bad(lng)) => (Status(400) /\ last.calls = <<>>)
       /\ ~(bad(lat) \/ bad(lng)) =>
            /\ Len(last.calls) = 1
            /\ last.calls[1].fn = "get_weather"
            /\ last.calls[1].args[1] = (IF lat.kind = "absent" THEN Dec(129716, 4) ELSE FloatVal(lat.str))
            /\ last.calls[1].args[2] = (IF lng.kind = "absent" THEN Dec(775946, 4) ELSE FloatVal(lng.str))
            /\ CallReturned(last) => last.out = Response(200, last.calls[1].out.val)

C8_Witness ==
  /\ last.name = "get_weather"
  /\ last.req["lat"] = Absent
  /\ last.req["lng"] = Str(<<".", "1">>)
  /\ last.calls # <<>>
  /\ last.calls[1].args = <<Dec(129716, 4), Dec(1, 1)>>
  /\ Status(200)

ListValue(name, sh, inc) ==
  CASE name = "get_shipments" -> AllShipments(sh)
    [] name = "get_active_shipments" -> ActiveShipments(sh)
    [] name = "get_incidents" -> AllIncidents(inc)
    [] name = "get_open_incidents" -> OpenIncidents(inc)

\* C9: a list request changes neither the agent handle nor the collaborators'
\* shipment and incident records, and its answer, when the collaborator
\* returns, is 200 with the collection those records determine, so repeating
\* it against the same records gives the same body.
C9_ListsReadOnly ==
  [][(last.name = "idle" /\ last'.name \in Listing)
       => /\ UNCHANGED <<_agent, created, shipments, incidents>>
          /\ Len(last'.calls) = 1
          /\ CallReturned(last') =>
               last'.out = Response(200, ListValue(last'.name, shipments', incidents'))]_vars

C9_Witness ==
  /\ last.name = "get_active_shipments"
  /\ _agent # None
  /\ Status(200)
  /\ last.out.body # {}
  /\ AllIncidents(incidents) # {}

PassedValidation(l) == l.name \in {"plan_logistics", "report_incident"} /\ ~(l.out.kind = "response" /\ l.out.status = 400)

\* C10: with requests served one at a time, the agent handle is written only
\* by a Plan or ReportIncident request that passed validation; once set it is
\* never cleared or replaced; a request that answers 400 or whose agent
\* construction raises leaves it as it was, and a later valid request, finding
\* it unset, calls the constructor again.
C10_HandleWrittenOnce ==
  [][/\ _agent # None => _agent' = _agent
     /\ _agent' # _agent => (PassedValidation(last') /\ last'.ctor = <<Returns(_agent')>>)
     /\ (last.name = "idle" /\ last'.name # "idle" /\ last'.out.kind = "response"
           /\ last'.out.status = 400) => (_agent' = _agent /\ last'.ctor = <<>>)
     /\ (last.name = "idle" /\ last'.name # "idle" /\ CtorRaised(last')) => _agent' = _agent
     /\ (last.name = "idle" /\ PassedValidation(last') /\ _agent = None) => Len(last'.ctor) = 1
     /\ (last.name = "idle" /\ last'.name # "idle" /\ _agent # None) => last'.ctor = <<>>]_vars

C10_Witness ==
  /\ last.name = "report_incident"
  /\ CtorRaised(last)
  /\ _agent = None
  /\ Status(500)

====
